---- MODULE Spec2Model ----
(***************************************************************************)
(* Model of the notebook "Automatic Target Parameter Calculation"          *)
(* (PassiveRadar/Target Parameter Calculation/auto_param_cal.ipynb).       *)
(*                                                                         *)
(* The state is the set of top-level variables of the notebook's kernel;   *)
(* there is one action per code cell (the velocity cell is split at its    *)
(* three in-place updates of speed_vector).  float64 values are modelled   *)
(* as fixed-point numbers with Scale units per metre, every arithmetic     *)
(* operation rounding to the nearest unit, plus the IEEE special values    *)
(* nan and +-inf that numpy produces on a division by zero.                *)
(*                                                                         *)
(* pygeodesy is an external library.  The result of                        *)
(* ecef_converter.forward(lat, lon, ele) is taken from a grid of whole     *)
(* metre Cartesian points (a geodetic literal is identified with its       *)
(* Cartesian image); the scene is placed where the ECEF axes x, y, z are   *)
(* up, east and north, so that LatLon.destination(1, dir) followed by      *)
(* forward() is the point one metre from the target along the heading in   *)
(* the y-z plane.                                                          *)
(***************************************************************************)
EXTENDS Integers, Sequences, FiniteSets, TLC

(* ----------------------------- bounds --------------------------------- *)
\* fixed-point resolution: units per metre
Scale == 32
\* east and north grid coordinates of the input points are 0..MaxCoord metres
MaxCoord == 2
\* the kernel's execution counter stops at MaxExec in the interactive specification
MaxExec == 5

\* target and radar stand on the ground plane, the illuminator on a mast of 0 or 1 m
Heights == {0, 1}
Points == {<<0, y, z>> : y \in 0..MaxCoord, z \in 0..MaxCoord}
MastPoints == {<<x, y, z>> : x \in Heights, y \in 0..MaxCoord, z \in 0..MaxCoord}
Headings == {0, 45, 90, 135, 180, 225, 270, 315}
Speeds == {-1, 0, 2}
\* wavelengths in fixed-point units: -0.5 m, 0 m, 0.5 m, 1 m
Wavelengths == {-(Scale \div 2), 0, Scale \div 2, Scale}

(* ------------------------- float64 values ----------------------------- *)
Num(n) == [kind |-> "num", val |-> n]
NaN == [kind |-> "nan", val |-> 0]
Inf(s) == [kind |-> "inf", val |-> s]
Unset == [kind |-> "unset", val |-> 0]
IsNum(a) == a.kind = "num"

Sign(n) == IF n > 0 THEN 1 ELSE IF n < 0 THEN -1 ELSE 0
Abs(n) == IF n < 0 THEN -n ELSE n
\* n / d rounded to the nearest integer (d # 0)
RoundDiv(n, d) ==
    LET q == (2 * Abs(n) + Abs(d)) \div (2 * Abs(d))
    IN  Sign(n) * Sign(d) * q

RECURSIVE SqrtSearch(_, _, _)
SqrtSearch(x, lo, hi) ==
    IF lo >= hi THEN lo
    ELSE LET mid == (lo + hi + 1) \div 2
         IN  IF mid * mid <= x THEN SqrtSearch(x, mid, hi)
             ELSE SqrtSearch(x, lo, mid - 1)
\* floor of the square root of x, 0 <= x < 2^30
FloorSqrt(x) == SqrtSearch(x, 0, 32767)
\* square root of x rounded to the nearest integer
RoundSqrt(x) ==
    LET r == FloorSqrt(x) IN IF x - r * r > r THEN r + 1 ELSE r

FAdd(a, b) ==
    IF a.kind = "nan" \/ b.kind = "nan" THEN NaN
    ELSE IF a.kind = "inf" /\ b.kind = "inf"
         THEN (IF a.val = b.val THEN a ELSE NaN)
    ELSE IF a.kind = "inf" THEN a
    ELSE IF b.kind = "inf" THEN b
    ELSE Num(a.val + b.val)
FNeg(a) == IF a.kind = "nan" THEN NaN ELSE [kind |-> a.kind, val |-> -a.val]
FSub(a, b) == FAdd(a, FNeg(b))
FAbs(a) == IF a.kind = "nan" THEN NaN ELSE [kind |-> a.kind, val |-> Abs(a.val)]
FMul(a, b) ==
    IF a.kind = "nan" \/ b.kind = "nan" THEN NaN
    ELSE IF a.kind = "inf" \/ b.kind = "inf"
         THEN (IF a.val = 0 \/ b.val = 0 THEN NaN ELSE Inf(Sign(a.val) * Sign(b.val)))
    ELSE Num(RoundDiv(a.val * b.val, Scale))
\* numpy float64 division: x/0 is +-inf, 0/0 is nan, no exception is raised
FDiv(a, b) ==
    IF a.kind = "nan" \/ b.kind = "nan" THEN NaN
    ELSE IF a.kind = "inf"
         THEN (IF b.kind = "inf" THEN NaN
               ELSE Inf(a.val * (IF b.val < 0 THEN -1 ELSE 1)))
    ELSE IF b.kind = "inf" THEN Num(0)
    ELSE IF b.val = 0
         THEN (IF a.val = 0 THEN NaN ELSE Inf(Sign(a.val)))
    ELSE Num(RoundDiv(a.val * Scale, b.val))
FSqrt(a) ==
    IF a.kind = "nan" THEN NaN
    ELSE IF a.kind = "inf" THEN (IF a.val > 0 THEN a ELSE NaN)
    ELSE IF a.val < 0 THEN NaN
    ELSE Num(RoundSqrt(a.val * Scale))

(* ---------------------------- numpy arrays ---------------------------- *)
Vec(p) == <<Num(p[1] * Scale), Num(p[2] * Scale), Num(p[3] * Scale)>>
VSub(u, v) == [k \in 1..3 |-> FSub(u[k], v[k])]
VAdd(u, v) == [k \in 1..3 |-> FAdd(u[k], v[k])]
VMul(u, v) == [k \in 1..3 |-> FMul(u[k], v[k])]
VScale(u, s) == [k \in 1..3 |-> FMul(u[k], s)]
VDiv(u, s) == [k \in 1..3 |-> FDiv(u[k], s)]
VSum(u) == FAdd(FAdd(u[1], u[2]), u[3])
\* variant of Norm that leaves out the squares
NormNoSquare(u) == FSqrt(VSum([k \in 1..3 |-> FAbs(u[k])]))
\* np.sqrt(np.sum(np.abs(u)**2))
Norm(u) ==
    LET a == [k \in 1..3 |-> FAbs(u[k])]
    IN  FSqrt(VSum(VMul(a, a)))

(* --------------------------- external library ------------------------- *)
\* ecef_converter = ecef.EcefYou(Datums.Sphere)
EcefDatum == "Sphere"
\* pygeodesy.ellipsoidalVincenty.LatLon without a datum argument is on WGS84
VincentyDatum == "WGS84"
\* distance handed to LatLon.destination, metres
ProbeDist == 1
\* heading (degrees clockwise from north) as an integer (up, east, north) direction
DirVec(d) ==
    CASE d = 0 -> <<0, 0, 1>>
      [] d = 45 -> <<0, 1, 1>>
      [] d = 90 -> <<0, 1, 0>>
      [] d = 135 -> <<0, 1, -1>>
      [] d = 180 -> <<0, 0, -1>>
      [] d = 225 -> <<0, -1, -1>>
      [] d = 270 -> <<0, -1, 0>>
      [] OTHER -> <<0, -1, 1>>
\* forward(destination(ProbeDist, d)) - forward(target): ProbeDist metres along d
ProbeStep(d) ==
    VScale(VDiv(Vec(DirVec(d)), Norm(Vec(DirVec(d)))), Num(ProbeDist * Scale))

(* ------------------------- illustrative constants --------------------- *)
\* fs = 10 * 10**6, in MHz
fs == 10
\* c = 3*10**8, in metres per microsecond
c == 300

(* ------------------------------- state -------------------------------- *)
VARIABLES
    target_ecef, ioo_ecef, radar_ecef,
    L, Rt, Rr, Rb, tau,
    target_dir, target_speed, speed_vector_ecef, speed_vector,
    wavelength, target_to_ioo_vector, target_to_radar_vector, fD,
    surface, pc, exec, ran,
    lat1, lon1, lat2, lon2, radar_bearing, theta, bpc

geometry == <<ioo_ecef, radar_ecef, L, Rt, Rr, Rb, tau>>
velocity == <<target_dir, target_speed, speed_vector_ecef, speed_vector>>
doppler == <<wavelength, target_to_ioo_vector, target_to_radar_vector, fD>>
\* the bearing calculation: receiver (1) and target (2) in microdegrees, the
\* antenna heading in degrees, the angle in microdegrees and the step it is at
bearing == <<lat1, lon1, lat2, lon2, radar_bearing, theta, bpc>>
vars == <<target_ecef, geometry, velocity, doppler, surface, pc, exec, ran, bearing>>

UnsetVec == <<Unset, Unset, Unset>>
Cells == 1..4

\* a fresh kernel: no name is bound, no cell has run
KernelInit ==
    /\ target_ecef = UnsetVec /\ ioo_ecef = UnsetVec /\ radar_ecef = UnsetVec
    /\ L = Unset /\ Rt = Unset /\ Rr = Unset /\ Rb = Unset /\ tau = Unset
    /\ target_dir = Unset /\ target_speed = Unset
    /\ speed_vector_ecef = UnsetVec /\ speed_vector = UnsetVec
    /\ wavelength = Unset
    /\ target_to_ioo_vector = UnsetVec /\ target_to_radar_vector = UnsetVec
    /\ fD = Unset
    /\ surface = [n \in {"target", "ioo", "radar", "probe"} |-> {}]
    /\ pc = "idle"
    /\ exec = 0
    /\ ran = [n \in Cells |-> 0]
BearingOff ==
    /\ lat1 = 0 /\ lon1 = 0 /\ lat2 = 0 /\ lon2 = 0
    /\ radar_bearing = 0 /\ theta = 0 /\ bpc = "off"
Init == KernelInit /\ BearingOff

Bound(v) == v # UnsetVec
\* the kernel numbers the cell it has just run
Finish(n) ==
    /\ exec' = exec + 1
    /\ ran' = [ran EXCEPT ![n] = exec + 1]

(* ------------------------------ the cells ----------------------------- *)
\* In [1]: target position
RunCell1(t) ==
    /\ pc = "idle"
    /\ target_ecef' = Vec(t)
    /\ surface' = [surface EXCEPT !["target"] = {EcefDatum}]
    /\ Finish(1)
    /\ UNCHANGED <<geometry, velocity, doppler, pc, bearing>>

\* L = np.sqrt(np.sum(np.abs(radar_ecef-ioo_ecef)**2))
Baseline(i, r) == Norm(VSub(r, i))
\* variant of TargetToIoo that leaves out the squares
TargetToIooNoSquare(t, i) == FSqrt(VSum([k \in 1..3 |-> FAbs(FSub(t[k], i[k]))]))
\* Rt = np.sqrt(np.sum(np.abs(target_ecef-ioo_ecef)**2))
TargetToIoo(t, i) == Norm(VSub(t, i))
\* Rr = np.sqrt(np.sum(np.abs(target_ecef-radar_ecef)**2))
TargetToRadar(t, r) == Norm(VSub(t, r))
\* variant of BistaticRange with the second distance subtracted
BistaticRangeMinus(rt, rr, l) == FSub(FSub(rt, rr), l)
\* Rb = Rt+Rr-L
BistaticRange(rt, rr, l) == FSub(FAdd(rt, rr), l)

\* In [2]: illuminator, radar, the three distances and the bistatic range
RunCell2(i, r) ==
    /\ pc = "idle"
    /\ Bound(target_ecef)
    /\ ioo_ecef' = Vec(i)
    /\ radar_ecef' = Vec(r)
    /\ L' = Baseline(ioo_ecef', radar_ecef')
    /\ Rt' = TargetToIoo(target_ecef, ioo_ecef')
    /\ Rr' = TargetToRadar(target_ecef, radar_ecef')
    /\ Rb' = BistaticRange(Rt', Rr', L')
    /\ tau' = FDiv(FMul(Rb', Num(fs * Scale)), Num(c * Scale))
    /\ surface' = [surface EXCEPT !["ioo"] = {EcefDatum}, !["radar"] = {EcefDatum}]
    /\ Finish(2)
    /\ UNCHANGED <<target_ecef, velocity, doppler, pc, bearing>>

\* In [3], lines 178-187: heading, speed, probe point, difference vector
RunCell3Probe(d, s) ==
    /\ pc = "idle"
    /\ Bound(target_ecef)
    /\ target_dir' = Num(d)
    /\ target_speed' = Num(s * Scale)
    /\ speed_vector_ecef' = VAdd(target_ecef, ProbeStep(d))
    /\ speed_vector' = VSub(speed_vector_ecef', target_ecef)
    /\ surface' = [surface EXCEPT !["probe"] = {VincentyDatum, EcefDatum}]
    /\ pc' = "normalize"
    /\ UNCHANGED <<target_ecef, geometry, doppler, exec, ran, bearing>>

\* In [3], line 188: speed_vector /= np.sqrt(np.sum(np.abs(speed_vector)**2))
Cell3Normalize ==
    /\ pc = "normalize"
    /\ speed_vector' = VDiv(speed_vector, Norm(speed_vector))
    /\ pc' = "scale"
    /\ UNCHANGED <<target_ecef, geometry, target_dir, target_speed,
                   speed_vector_ecef, doppler, surface, exec, ran, bearing>>

\* variant of Cell3Scale that leaves the unit vector unscaled
Cell3ScaleMissing ==
    /\ pc = "scale"
    /\ pc' = "idle"
    /\ Finish(3)
    /\ UNCHANGED <<target_ecef, geometry, velocity, doppler, surface, bearing>>
\* In [3], line 189: speed_vector *= target_speed
Cell3Scale ==
    /\ pc = "scale"
    /\ speed_vector' = VScale(speed_vector, target_speed)
    /\ pc' = "idle"
    /\ Finish(3)
    /\ UNCHANGED <<target_ecef, geometry, target_dir, target_speed,
                   speed_vector_ecef, doppler, surface, bearing>>

\* variant of DopplerFormula without the factor -1
DopplerFormulaNoMinus(v, ui, ur, w) ==
    FDiv(FAdd(VSum(VMul(v, ui)), VSum(VMul(v, ur))), w)
\* fD = -1*((np.sum(speed_vector*target_to_ioo_vector))
\*          + (np.sum(speed_vector*target_to_radar_vector)))/wavelength
DopplerFormula(v, ui, ur, w) ==
    FDiv(FMul(Num(-1 * Scale), FAdd(VSum(VMul(v, ui)), VSum(VMul(v, ur)))), w)

\* In [6]: line-of-sight vectors and the bistatic Doppler frequency
RunCell4(w) ==
    /\ pc = "idle"
    /\ Bound(target_ecef) /\ Bound(ioo_ecef) /\ Bound(speed_vector)
    /\ wavelength' = Num(w)
    /\ target_to_ioo_vector' = VDiv(VSub(target_ecef, ioo_ecef), Rt)
    /\ target_to_radar_vector' = VDiv(VSub(target_ecef, radar_ecef), Rr)
    /\ fD' = DopplerFormula(speed_vector, target_to_ioo_vector',
                            target_to_radar_vector', wavelength')
    /\ Finish(4)
    /\ UNCHANGED <<target_ecef, geometry, velocity, surface, pc, bearing>>

(* ------------------ Restart & Run All: the cells in order ------------- *)
Cell1 == exec = 0 /\ \E t \in Points : RunCell1(t)
Cell2 == exec = 1 /\ \E i \in MastPoints, r \in Points : RunCell2(i, r)
Cell3Probe == exec = 2 /\ \E d \in Headings, s \in Speeds : RunCell3Probe(d, s)
Cell4 == exec = 3 /\ \E w \in Wavelengths : RunCell4(w)

Next == Cell1 \/ Cell2 \/ Cell3Probe \/ Cell3Normalize \/ Cell3Scale \/ Cell4
Spec == Init /\ [][Next]_vars

(* ------------------------------ bearing ------------------------------- *)
\* Angles are whole microdegrees, sines and cosines fixed-point numbers with 28
\* fractional bits; sin, cos and atan2 are evaluated by CORDIC iterations, good to
\* about 1e-7 in the sine and cosine.
Deg(n) == n * 1000000
One == 2 ^ 28
\* atan(2^-i) in microdegrees, i = 0..26
AtanTable ==
    <<45000000, 26565051, 14036243, 7125016, 3576334, 1789911, 895174, 447614,
      223811, 111906, 55953, 27976, 13988, 6994, 3497, 1749, 874, 437, 219, 109,
      55, 27, 14, 7, 3, 2, 1>>
\* One divided by the gain of the iterations
CordicStart == 163008219

RECURSIVE CordicRotate(_, _, _, _)
\* <<cos z, sin z>> for -90 <= z <= 90 degrees, from (x, y) = (CordicStart, 0), i = 0
CordicRotate(x, y, z, i) ==
    IF i >= Len(AtanTable) THEN <<x, y>>
    ELSE IF z >= 0
         THEN CordicRotate(x - (y \div 2 ^ i), y + (x \div 2 ^ i), z - AtanTable[i + 1], i + 1)
         ELSE CordicRotate(x + (y \div 2 ^ i), y - (x \div 2 ^ i), z + AtanTable[i + 1], i + 1)
\* an angle brought into [-180, 180) degrees
WrapAngle(a) == ((a + Deg(180)) % Deg(360)) - Deg(180)
CosSin(a) ==
    LET w == WrapAngle(a)
    IN  IF w > Deg(90)
        THEN LET r == CordicRotate(CordicStart, 0, Deg(180) - w, 0) IN <<-r[1], r[2]>>
        ELSE IF w < -Deg(90)
        THEN LET r == CordicRotate(CordicStart, 0, -Deg(180) - w, 0) IN <<-r[1], r[2]>>
        ELSE CordicRotate(CordicStart, 0, w, 0)
Cos(a) == CosSin(a)[1]
Sin(a) == CosSin(a)[2]
\* product of two fixed-point numbers, computed in halves to stay within 32 bits
MulOne(a, b) ==
    LET ah == Abs(a) \div 2 ^ 14
        al == Abs(a) % 2 ^ 14
        bh == Abs(b) \div 2 ^ 14
        bl == Abs(b) % 2 ^ 14
        m == ah * bh + ((ah * bl + al * bh + ((al * bl) \div 2 ^ 14)) \div 2 ^ 14)
    IN  IF (a < 0) = (b < 0) THEN m ELSE -m

RECURSIVE CordicVector(_, _, _, _)
\* the angle of (x, y), x > 0, in microdegrees
CordicVector(x, y, z, i) ==
    IF i >= Len(AtanTable) THEN z
    ELSE IF y > 0
         THEN CordicVector(x + (y \div 2 ^ i), y - (x \div 2 ^ i), z + AtanTable[i + 1], i + 1)
         ELSE CordicVector(x - (y \div 2 ^ i), y + (x \div 2 ^ i), z - AtanTable[i + 1], i + 1)
RECURSIVE ScaleUp(_, _)
\* (x, y) doubled until the larger magnitude has 27 bits
ScaleUp(x, y) ==
    IF (x = 0 /\ y = 0) \/ Abs(x) >= 2 ^ 27 \/ Abs(y) >= 2 ^ 27 THEN <<x, y>>
    ELSE ScaleUp(2 * x, 2 * y)
\* atan2(y, x) in microdegrees, in (-180, 180] degrees; atan2(0, 0) = 0
Atan2(y, x) ==
    LET p == ScaleUp(x, y)
    IN  IF p[1] = 0 /\ p[2] = 0 THEN 0
        ELSE IF p[1] < 0
        THEN (IF p[2] >= 0 THEN Deg(180) ELSE -Deg(180)) + CordicVector(-p[1], -p[2], 0, 0)
        ELSE CordicVector(p[1], p[2], 0, 0)

\* variant of HeadingFormula with the two arguments of atan2 exchanged
HeadingFormulaSwapped(la1, lo1, la2, lo2) ==
    Atan2(MulOne(Sin(lo2 - lo1), Cos(la2)),
          MulOne(Cos(la1), Sin(la2)) - MulOne(MulOne(Sin(la1), Cos(la2)), Cos(lo2 - lo1)))
\* theta = atan2(cos(lat_1)*sin(lat_2)-sin(lat_1)*cos(lat_2)*cos(lon_2-lon_1),
\*               sin(lon_2-lon_1)*cos(lat_2))
HeadingFormula(la1, lo1, la2, lo2) ==
    Atan2(MulOne(Cos(la1), Sin(la2)) - MulOne(MulOne(Sin(la1), Cos(la2)), Cos(lo2 - lo1)),
          MulOne(Sin(lo2 - lo1), Cos(la2)))
\* the result brought to [0, 360) by adding 360 if negative
AddTurnIfNegative(a) == IF a < 0 THEN a + Deg(360) ELSE a
\* variant of SubtractBoresight without the reduction modulo 360
SubtractBoresightNoWrap(a, b) == a - Deg(b)
\* the antenna heading subtracted, modulo 360
SubtractBoresight(a, b) == (a - Deg(b)) % Deg(360)

\* radar_lat, radar_lon / target_lat, target_lon / ioo_lat, ioo_lon of the notebook
RadarPlace == <<47501807, 19034006>>
TargetPlace == <<47515136, 19078176>>
IooPlace == <<47491667, 18978889>>
Places ==
    {RadarPlace, TargetPlace, IooPlace,
     <<47501807, 18990000>>, <<47490000, 19034006>>, <<-33868800, 151209300>>,
     <<64146600, -21942600>>}
\* antenna headings are multiples of 45 degrees from -45 to 45 * MaxTurn
MaxTurn == 9
Boresights == {45 * k : k \in -1..MaxTurn}

InitBearing ==
    /\ KernelInit
    /\ \E p \in Places, q \in Places :
          /\ p # q
          /\ lat1 = p[1] /\ lon1 = p[2] /\ lat2 = q[1] /\ lon2 = q[2]
    /\ radar_bearing \in Boresights
    /\ theta = 0
    /\ bpc = "formula"
EvalFormula ==
    /\ bpc = "formula"
    /\ theta' = HeadingFormula(lat1, lon1, lat2, lon2)
    /\ bpc' = "normalize"
    /\ UNCHANGED <<target_ecef, geometry, velocity, doppler, surface, pc, exec, ran,
                   lat1, lon1, lat2, lon2, radar_bearing>>
NormalizeAngle ==
    /\ bpc = "normalize"
    /\ theta' = AddTurnIfNegative(theta)
    /\ bpc' = "boresight"
    /\ UNCHANGED <<target_ecef, geometry, velocity, doppler, surface, pc, exec, ran,
                   lat1, lon1, lat2, lon2, radar_bearing>>
CorrectBoresight ==
    /\ bpc = "boresight"
    /\ theta' = SubtractBoresight(theta, radar_bearing)
    /\ bpc' = "done"
    /\ UNCHANGED <<target_ecef, geometry, velocity, doppler, surface, pc, exec, ran,
                   lat1, lon1, lat2, lon2, radar_bearing>>
NextBearing == EvalFormula \/ NormalizeAngle \/ CorrectBoresight
SpecBearing == InitBearing /\ [][NextBearing]_vars

(* --------- interactive kernel: any cell, any time, edited inputs ------ *)
\* A cell that reads an unbound name stops with NameError; such runs are left out.
KernelTargets == {<<0, 0, 0>>, <<0, 1, 1>>}
KernelIoo == {<<1, 0, 2>>}
KernelRadar == {<<0, 2, 0>>, <<0, 2, 2>>}
KernelHeadings == {0, 90}
KernelSpeeds == {1}
KernelWavelengths == {Scale \div 2}

KCell1 == exec < MaxExec /\ \E t \in KernelTargets : RunCell1(t)
KCell2 == exec < MaxExec /\ \E i \in KernelIoo, r \in KernelRadar : RunCell2(i, r)
KCell3Probe ==
    exec < MaxExec /\ \E d \in KernelHeadings, s \in KernelSpeeds : RunCell3Probe(d, s)
KCell4 == exec < MaxExec /\ \E w \in KernelWavelengths : RunCell4(w)

NextKernel ==
    KCell1 \/ KCell2 \/ KCell3Probe \/ Cell3Normalize \/ Cell3Scale \/ KCell4
SpecKernel == Init /\ [][NextKernel]_vars

(* ============================ properties ============================== *)
Val(k) == IF k.kind = "num" THEN k.val ELSE 0
\* grid difference of two fixed-point points, in whole metres
Metres(u, v) == [k \in 1..3 |-> (u[k].val - v[k].val) \div Scale]
Dot(u, v) == u[1] * v[1] + u[2] * v[2] + u[3] * v[3]
\* n is the Euclidean length of the fixed-point difference u - v, to the nearest unit
IsLength(n, u, v) ==
    LET d == [k \in 1..3 |-> u[k].val - v[k].val]
        q == Dot(d, d)
    IN  /\ n.kind = "num" /\ n.val >= 0
        /\ 4 * q < (2 * n.val + 1) * (2 * n.val + 1)
        /\ (n.val = 0 \/ (2 * n.val - 1) * (2 * n.val - 1) <= 4 * q)
ZeroVec == <<Num(0), Num(0), Num(0)>>

\* C1: after the distance cell has run, L, Rt and Rr are the Euclidean norms of
\* radar - illuminator, target - illuminator and target - radar (to the nearest
\* representable value) and Rb is exactly Rt + Rr - L.
C1_Distances ==
    ran[2] > 0 =>
        /\ IsLength(L, radar_ecef, ioo_ecef)
        /\ IsLength(Rt, target_ecef, ioo_ecef)
        /\ IsLength(Rr, target_ecef, radar_ecef)
        /\ Rb = Num(Rt.val + Rr.val - L.val)
\* three distinct positive distances, the baseline not a whole number of metres
C1_Witness ==
    /\ ran[2] > 0
    /\ L.val > 0 /\ Rt.val > L.val /\ Rr.val > Rt.val /\ Rb.val > 0
    /\ L.val % Scale # 0

\* C2 as claimed: Rt + Rr >= L always, so the computed bistatic range is never
\* negative.
C2_NonNegative == ran[2] > 0 => (Rt.val + Rr.val >= L.val /\ Rb.val >= 0)
\* C2 as amended: the triangle inequality holds up to the rounding of the three
\* computed norms; the computed bistatic range is never below minus one unit in
\* the last place.
C2_UpToRounding == ran[2] > 0 => (Rt.val + Rr.val - L.val >= -1 /\ Rb.val >= -1)
\* a target on the baseline whose computed bistatic range is negative
C2_Witness ==
    /\ ran[2] > 0 /\ Rb.val < 0
    /\ Metres(target_ecef, ioo_ecef) = Metres(radar_ecef, target_ecef)

\* sign of the rate of change of |target - illuminator| + |target - radar| when the
\* target moves with the velocity speed_vector: the sign of
\* a / sqrt(A) + b / sqrt(B), decided exactly in integers
PathRateSign ==
    LET v == [k \in 1..3 |-> Val(speed_vector[k])]
        di == Metres(target_ecef, ioo_ecef)
        dr == Metres(target_ecef, radar_ecef)
        a == Dot(v, di)
        A == Dot(di, di)
        b == Dot(v, dr)
        B == Dot(dr, dr)
    IN  IF Sign(a) * Sign(b) >= 0 THEN (IF a # 0 THEN Sign(a) ELSE Sign(b))
        ELSE IF a * a * B > b * b * A THEN Sign(a)
        ELSE IF a * a * B < b * b * A THEN Sign(b)
        ELSE 0
DopplerDefined ==
    /\ ran[4] > 0
    /\ Rt.val > 0 /\ Rr.val > 0 /\ wavelength.val > 0

\* rounding error of the computed Doppler value, in fixed-point units: every
\* component of a line-of-sight vector is within one unit of its exact value and
\* every product is rounded once more
DopplerTol ==
    LET v == [k \in 1..3 |-> Abs(Val(speed_vector[k]))]
    IN  ((2 * (v[1] + v[2] + v[3]) + 3 * Scale) \div wavelength.val) + 1

\* C10 as claimed: the Doppler value is positive exactly for motion that shortens
\* the path illuminator -> target -> radar, negative exactly for motion that
\* lengthens it, and zero when the two radial components cancel.
C10_SignExact ==
    DopplerDefined =>
        /\ fD.kind = "num"
        /\ (fD.val > 0 <=> PathRateSign = -1)
        /\ (fD.val < 0 <=> PathRateSign = 1)
        /\ (PathRateSign = 0 => fD.val = 0)
\* C10 as amended: a Doppler value above the rounding error of the projections is
\* positive only for closing and negative only for opening motion; when the radial
\* components cancel the value is within the rounding error of zero.
C10_SignUpToRounding ==
    DopplerDefined =>
        /\ fD.kind = "num"
        /\ (fD.val > DopplerTol => PathRateSign = -1)
        /\ (fD.val < -DopplerTol => PathRateSign = 1)
        /\ (PathRateSign = 0 => Abs(fD.val) <= DopplerTol)
\* a closing target with a Doppler value above the rounding error
C10_Witness ==
    /\ DopplerDefined /\ PathRateSign = -1 /\ fD.val > DopplerTol
    /\ target_speed.val > 0

\* C3 as claimed: with speed 0 the normalize step is not executed, the velocity is
\* the zero vector and the Doppler value is 0.
C3_NoNormalize ==
    [][target_speed' = Num(0) =>
          /\ ~(pc = "normalize" /\ pc' = "scale")
          /\ (ran'[3] > 0 => speed_vector' = ZeroVec)
          /\ (ran'[4] > 0 /\ Rt'.val > 0 /\ Rr'.val > 0 /\ wavelength'.val # 0
                => fD' = Num(0))]_vars
\* C3 as amended: with speed 0 the normalize step is still executed (the unit
\* vector is then scaled by 0); the velocity is the zero vector and, for every
\* heading, non-degenerate geometry and non-zero wavelength, the Doppler value is 0.
C3_ZeroSpeed ==
    [][target_speed' = Num(0) =>
          /\ (pc = "normalize" =>
                pc' = "scale" /\ speed_vector' = VDiv(speed_vector, Norm(speed_vector)))
          /\ (ran'[3] > 0 => speed_vector' = ZeroVec)
          /\ (ran'[4] > 0 /\ Rt'.val > 0 /\ Rr'.val > 0 /\ wavelength'.val # 0
                => fD' = Num(0))]_vars
\* a Doppler value computed for a target of speed 0 on a diagonal heading
C3_Witness ==
    /\ target_speed = Num(0) /\ target_dir = Num(45)
    /\ ran[4] > 0 /\ Rt.val > 0 /\ Rr.val > 0 /\ wavelength.val > 0
    /\ speed_vector = ZeroVec

\* C4 as claimed: with Rt = 0 or Rr = 0 the Doppler computation fails and no value
\* (neither 0 nor nan) is produced; stated here for otherwise valid parameters.
C4_DegenerateRejected ==
    (/\ ran[4] > 0 /\ wavelength.val > 0 /\ target_speed.val >= 0
     /\ (Rt = Num(0) \/ Rr = Num(0))) => fD = Unset

\* C5 as claimed: every point that enters a distance or difference is derived with
\* the one reference surface of the Cartesian conversion.
C5_SingleSurface ==
    \A n \in DOMAIN surface : surface[n] \subseteq {EcefDatum}

\* C6 as claimed: a non-positive wavelength or a negative speed is rejected before
\* any Doppler value (finite, nan or inf) is produced; stated here for
\* non-degenerate geometry.
C6_InvalidRejected ==
    (/\ ran[4] > 0 /\ Rt.val > 0 /\ Rr.val > 0
     /\ (wavelength.val <= 0 \/ target_speed.val < 0)) => fD = Unset

\* the Doppler value as a function of the present inputs alone
FreshDoppler ==
    LET di == VSub(target_ecef, ioo_ecef)
        dr == VSub(target_ecef, radar_ecef)
        step == ProbeStep(target_dir.val)
        v == VScale(VDiv(step, Norm(step)), target_speed)
    IN  DopplerFormula(v, VDiv(di, Norm(di)), VDiv(dr, Norm(dr)), wavelength)
FreshRange ==
    FSub(FAdd(Norm(VSub(target_ecef, ioo_ecef)), Norm(VSub(target_ecef, radar_ecef))),
         Norm(VSub(radar_ecef, ioo_ecef)))
\* the last runs of the cells are in dependency order
InOrder ==
    /\ pc = "idle"
    /\ 0 < ran[1] /\ ran[1] < ran[2] /\ ran[1] < ran[3]
    /\ ran[2] < ran[4] /\ ran[3] < ran[4]

ReferenceScene ==
    /\ <<lat1, lon1>> = RadarPlace /\ <<lat2, lon2>> = TargetPlace
    /\ radar_bearing = 0 /\ bpc = "done"
====
